---- MODULE Spec2Model ----
(***************************************************************************)
(* Model of opt-tools-mcp-client: the HTTP transport with its retry        *)
(* policy (src/transport/http.ts), the OptimizationClient facade           *)
(* (src/client.ts) and the MCP tool-call adapter (src/mcp/server.ts).      *)
(*                                                                         *)
(* A call is followed from its caller (a program using the facade, or a    *)
(* host sending a tool call) through the facade and the transport to the   *)
(* remote service and back.  The remote service and the network are the    *)
(* environment: every request in flight is answered by a 2xx body from     *)
(* PayloadsOf or by a failure from FailuresOf.                             *)
(* Spec follows one call at a time; ConcSpec follows two tool calls of    *)
(* the adapter through all interleavings of their steps.                  *)
(*                                                                         *)
(* The retry policy is the one http.ts hands to axios-retry: `retries`     *)
(* retries, retryCondition, exponentialDelay.  The helpers of axios-retry  *)
(* are modelled by their published behaviour: a network error is a         *)
(* failure without response whose code is neither the timeout code         *)
(* ECONNABORTED nor on the is-retry-allowed deny list; an idempotent       *)
(* request error is a failure without response (timeout excepted) or with  *)
(* a 5xx status, of a get / head / options / put / delete.  Responses      *)
(* carry no Retry-After header, and the time a request takes is not        *)
(* modelled.                                                               *)
(***************************************************************************)
EXTENDS Integers, Sequences, FiniteSets, TLC

VARIABLES
    config,      \* this.config of the directly constructed OptimizationClient
    pc,          \* pc[c]: "idle" | "inflight" | "backoff" | "done"
    via,         \* via[c]: "direct" (programmatic caller) | "adapter" (tool call)
                 \*         | "discovery" (tool listing)
    op,          \* op[c]: the facade method the call runs
    arg,         \* arg[c]: the argument list the facade method was called with
    retries,     \* retries[c]: `retries` of the transport the call goes through
    req,         \* req[c]: the axios request config [method, path, body]
    retryCount,  \* retryCount[c]: axios-retry's per-request retryCount
    wire,        \* wire[c]: the requests the remote service has observed
    delays,      \* delays[c]: the delay slept before each retry, in ms
    observed,    \* observed[c]: the failure seen at each failed attempt
    thrown,      \* thrown[c]: the errors HttpTransport.get / post rejected with
    settled,     \* settled[c]: "pending" | "resolved" | "rejected" (the facade promise)
    value,       \* value[c]: the values the facade promise resolved with
    error,       \* error[c]: the errors the facade promise rejected with
    replied,     \* replied[c]: the 2xx bodies the remote service has sent
    invoked,     \* invoked[c]: the facade methods the call has invoked, in order
    tool,        \* tool[c]: request.params of the tool call, when via[c] = "adapter"
    toolResult,  \* toolResult[c]: the results the tool-call handler has returned
    failedCalls  \* the tool calls answered with an error block so far (saturating)

vars == <<config, pc, via, op, arg, retries, req, retryCount, wire, delays,
          observed, thrown, settled, value, error, replied, invoked, tool, toolResult,
                   failedCalls>>

-----------------------------------------------------------------------------
(* Bounds *)

\* largest `retries` a caller configures explicitly
MaxRetries == 2

\* the failed tool calls that are counted
MaxFailed == 2

Calls == {1}

-----------------------------------------------------------------------------
(* Configuration: src/types/config.ts, src/client.ts constructor *)

DefaultRetries == 3
DefaultTimeout == 30000
AdapterRetries == 2
AdapterTimeout == 120000

\* the configurations a caller passes; timeout / retries are optional
ConfigInputs ==
    {[serverUrl |-> "http://srv", apiKey |-> "key"]} \cup
    {[serverUrl |-> "http://srv", apiKey |-> "key", retries |-> r] : r \in 0..MaxRetries}

\* { timeout: 30000, retries: 3, debug: false, ...config }
ClientConfig(cfg) ==
    [f \in {"timeout", "retries", "debug"} \cup DOMAIN cfg |->
        IF f \in DOMAIN cfg THEN cfg[f]
        ELSE IF f = "timeout" THEN DefaultTimeout
        ELSE IF f = "retries" THEN DefaultRetries
        ELSE FALSE]

\* the client the adapter builds at module load
AdapterConfig ==
    ClientConfig([serverUrl |-> "http://srv", apiKey |-> "key",
                  timeout |-> AdapterTimeout, retries |-> AdapterRetries])

-----------------------------------------------------------------------------
(* Problems, descriptions, report ids: src/types/problems.ts               *)
(* A JavaScript object is a function from its own property names; a        *)
(* property value on the request side is the JSON text of the value.       *)

\* the value of a property that is absent or was never assigned
Undefined == "undefined"

Variables == "[x,y]"
Objective == "{maximize 3*x+2*y}"
Constraints == "[x+y<=10]"
Locations == "[A,B,C]"

LpProblems ==
    { [variables |-> Variables, objective |-> Objective,
       constraints |-> Constraints, generate_report |-> "true"],
      [variables |-> Variables, objective |-> Objective],
      [variables |-> Variables, objective |-> Objective,
       timeout |-> "60", generate_report |-> "false"] }

TspProblems ==
    { [locations |-> Locations],
      [locations |-> Locations, start_location |-> "A", timeout |-> "120",
       generate_report |-> "true"] }

Descriptions == {"maximize profit"}
ReportIds == {"r1"}
Limits == {1, 50}

Ops == {"solveLp", "solveMip", "solveTsp", "analyzeProblem", "getReport", "listReports"}

\* the arguments a caller may pass to each facade method
ArgsOf(o) ==
    CASE o = "solveLp" -> LpProblems
      [] o = "solveMip" -> LpProblems
      [] o = "solveTsp" -> TspProblems
      [] o = "analyzeProblem" -> Descriptions
      [] o = "getReport" -> ReportIds
      [] o = "listReports" -> Limits

-----------------------------------------------------------------------------
(* Facade: src/client.ts *)

\* a solveLp that fills in generate_report and constraints before sending
solveLpDefaults(problem) ==
    [method |-> "post", path |-> "/api/solve/lp",
     body |-> [f \in DOMAIN problem \cup {"constraints", "generate_report"} |->
                IF f \in DOMAIN problem THEN problem[f]
                ELSE IF f = "constraints" THEN "[]" ELSE "true"]]

\* the request each facade method hands to the transport
solveLp(problem) == [method |-> "post", path |-> "/api/solve/lp", body |-> problem]
solveMip(problem) == [method |-> "post", path |-> "/api/solve/mip", body |-> problem]
solveTsp(problem) == [method |-> "post", path |-> "/api/solve/tsp", body |-> problem]
analyzeProblem(description) ==
    [method |-> "post", path |-> "/api/analyze", body |-> [description |-> description]]
getReport(reportId) == [method |-> "get", path |-> "/api/reports/" \o reportId]
listReports(limit) == [method |-> "get", path |-> "/api/reports?limit=" \o ToString(limit)]

\* property p of object obj, as JavaScript reads it
Prop(obj, p) == IF p \in DOMAIN obj THEN obj[p] ELSE Undefined

\* JSON.stringify of a request body: properties whose value is undefined are dropped
Serialize(body) ==
    LET kept == {p \in DOMAIN body : body[p] # Undefined}
    IN  [p \in kept |-> body[p]]

\* what the remote service observes of a request
OnWire(r) ==
    IF r.method = "post"
    THEN [method |-> r.method, path |-> r.path, body |-> Serialize(r.body)]
    ELSE [method |-> r.method, path |-> r.path]

FacadeRequest(o, a) ==
    CASE o = "solveLp" -> solveLp(a)
      [] o = "solveMip" -> solveMip(a)
      [] o = "solveTsp" -> solveTsp(a)
      [] o = "analyzeProblem" -> analyzeProblem(a)
      [] o = "getReport" -> getReport(a)
      [] o = "listReports" -> listReports(a)

-----------------------------------------------------------------------------
(* Remote service and network: what one request can be answered with *)

\* 0 stands for error.response being undefined
NoResponse == 0

ErrorStatuses == {400, 401, 429, 500, 502, 503}

\* codes of failures without a response; ECONNABORTED is axios' timeout code
NetworkCodes == {"ECONNREFUSED", "ENOTFOUND"}
TimeoutCode == "ECONNABORTED"

\* a 2xx response whose body is the JSON text null: response.data is null
NullBody == [null |-> TRUE]

SolvePayloads ==
    { [status |-> "OPTIMAL", objective_value |-> 20,
       solution |-> <<[name |-> "x", value |-> 0], [name |-> "y", value |-> 10]>>],
      [status |-> "OPTIMAL", objective_value |-> 20,
       solution |-> <<[name |-> "x", value |-> 0], [name |-> "y", value |-> 10]>>,
       report_id |-> "r1", execution_time_ms |-> 12, solver_info |-> [solver |-> "GLOP"]],
      [status |-> "INFEASIBLE", report_id |-> ""],
      NullBody }

TspPayloads ==
    { [status |-> "OPTIMAL", objective_value |-> 15000, execution_time_ms |-> 1234,
       solution |-> [route_names |-> <<"A", "B", "C", "A">>,
                     segments |-> <<[from_name |-> "A", to_name |-> "B", distance |-> 5000],
                                    [from_name |-> "B", to_name |-> "C", distance |-> 2346]>>],
       report_id |-> "r1"],
      [status |-> "OPTIMAL", objective_value |-> 7346, execution_time_ms |-> 80,
       solution |-> [route_names |-> <<"A", "B", "A">>]],
      [status |-> "INFEASIBLE", report_id |-> ""],
      NullBody }

AnalysisPayloads ==
    { [problem_type |-> "LP", confidence |-> "high", variables_detected |-> <<"x">>,
       constraints_detected |-> <<"x<=10">>, recommendations |-> <<"use solve_lp">>],
      [problem_type |-> "TSP", confidence |-> "low", variables_detected |-> <<>>,
       constraints_detected |-> <<>>, recommendations |-> <<>>],
      NullBody }

HtmlPayloads == {"<html>r1</html>", "<html><body>report r1</body></html>"}

ListPayloads ==
    { [reports |-> <<"r2", "r1">>, total |-> 2],
      [reports |-> <<>>, total |-> 0] }

\* the bodies a 2xx response to a request of facade method o may carry
PayloadsOf(o) ==
    CASE o \in {"solveLp", "solveMip"} -> SolvePayloads
      [] o = "solveTsp" -> TspPayloads
      [] o = "analyzeProblem" -> AnalysisPayloads
      [] o = "getReport" -> HtmlPayloads
      [] o = "listReports" -> ListPayloads

\* the AxiosError of a response whose status is outside 2xx
StatusError(s, m) ==
    [status |-> s, code |-> IF s < 500 THEN "ERR_BAD_REQUEST" ELSE "ERR_BAD_RESPONSE",
     method |-> m, message |-> "Request failed with status code " \o ToString(s)]

\* the AxiosError of a request that got no response
NetworkError(code, m) ==
    [status |-> NoResponse, code |-> code, method |-> m,
     message |-> IF code = TimeoutCode THEN "timeout exceeded" ELSE "connect " \o code]

\* every failure an attempt with method m can end in
FailuresOf(m) ==
    {StatusError(s, m) : s \in ErrorStatuses} \cup
    {NetworkError(code, m) : code \in NetworkCodes \cup {TimeoutCode}}

-----------------------------------------------------------------------------
(* Transport: src/transport/http.ts, the axios-retry policy it configures *)

IDEMPOTENT_HTTP_METHODS == {"get", "head", "options", "put", "delete"}

\* is-retry-allowed: codes that are never worth retrying
isRetryAllowed(e) == e.code \notin {"ENOTFOUND", "ENETUNREACH"}

\* a network-error test that only accepts safe / idempotent methods
isNetworkErrorIdempotentOnly(e) ==
    /\ e.status = NoResponse
    /\ e.code # TimeoutCode
    /\ isRetryAllowed(e)
    /\ e.method \in {"get", "head", "options", "put", "delete"}

\* axiosRetry.isNetworkError
isNetworkError(e) ==
    /\ e.status = NoResponse
    /\ e.code # TimeoutCode
    /\ isRetryAllowed(e)

\* a retryable-error test that takes every error status for a server error
isRetryableErrorAny(e) ==
    /\ e.code # TimeoutCode
    /\ \/ e.status = NoResponse
       \/ e.status >= 400 /\ e.status <= 599

\* axiosRetry.isRetryableError
isRetryableError(e) ==
    /\ e.code # TimeoutCode
    /\ \/ e.status = NoResponse
       \/ e.status >= 500 /\ e.status <= 599

\* an idempotent-request test that forgets to look at the method
isIdempotentRequestErrorAnyMethod(e) == isRetryableError(e)

\* axiosRetry.isIdempotentRequestError
isIdempotentRequestError(e) ==
    isRetryableError(e) /\ e.method \in IDEMPOTENT_HTTP_METHODS

\* axiosRetry.isNetworkOrIdempotentRequestError
isNetworkOrIdempotentRequestError(e) ==
    isNetworkError(e) \/ isIdempotentRequestError(e)

\* a retry condition that forgets the rate-limit status
retryConditionNo429(e) ==
    \/ isNetworkOrIdempotentRequestError(e)
    \/ e.status = 503

\* retryCondition passed to axiosRetry
retryCondition(e) ==
    \/ isNetworkOrIdempotentRequestError(e)
    \/ e.status = 429
    \/ e.status = 503

\* a retry test that allows one retry too many
shouldRetryOffByOne(count, max, e) == count <= max /\ retryCondition(e)

\* axios-retry retries while its retryCount is below `retries`
shouldRetry(count, max, e) == count < max /\ retryCondition(e)

\* Math.random() in [0, 1), as hundredths
JitterPcts == {0, 99}

Pow2(n) == 2 ^ n

\* axiosRetry.exponentialDelay: 2^retryNumber * 100 plus 0..20% of it
exponentialDelay(retryNumber, pct) ==
    LET delay == Pow2(retryNumber) * 100
    IN  delay + (delay * 20 * pct) \div 10000

-----------------------------------------------------------------------------
(* Protocol adapter: src/mcp/server.ts *)

SERVER_URL == "http://srv"

ToolNames == {"solve_lp", "solve_mip", "solve_tsp", "analyze_problem", "get_report"}

\* a declaration list that leaves get_report out
toolsWithoutReport == <<"solve_lp", "solve_mip", "solve_tsp", "analyze_problem">>

\* the tool declarations returned by the discovery handler, in order
tools == <<"solve_lp", "solve_mip", "solve_tsp", "analyze_problem", "get_report">>

\* the `required` list of each tool's inputSchema
RequiredArgs ==
    [solve_lp |-> {"variables", "objective"}, solve_mip |-> {"variables", "objective"},
     solve_tsp |-> {"locations"}, analyze_problem |-> {"description"},
     get_report |-> {"report_id"}]

\* the argument bags a host may send with each tool name
ToolArgs(name) ==
    CASE name \in {"solve_lp", "solve_mip"} ->
            { [variables |-> Variables, objective |-> Objective,
               constraints |-> Constraints, generate_report |-> "true"],
              [variables |-> Variables, objective |-> Objective],
              [variables |-> Variables, objective |-> Objective,
               generate_report |-> "false", timeout |-> "60"],
              [objective |-> Objective, constraints |-> "null", generate_report |-> "0"] }
      [] name = "solve_tsp" ->
            { [locations |-> Locations],
              [locations |-> Locations, start_location |-> "A",
               generate_report |-> "false", timeout |-> "120"],
              [start_location |-> "A"] }
      [] name = "analyze_problem" ->
            { [description |-> "maximize profit"], [text |-> "maximize profit"] }
      [] name = "get_report" ->
            { [report_id |-> "r1"], [id |-> "r1"] }
      [] OTHER -> { [report_id |-> "r1"] }

\* request.params of a tool call; hasArgs is FALSE when `arguments` is missing
ToolRequests ==
    UNION {{[name |-> n, hasArgs |-> TRUE, args |-> a] : a \in ToolArgs(n)} :
                n \in ToolNames \cup {"solve_qp"}}
    \cup {[name |-> n, hasArgs |-> FALSE, args |-> <<>>] : n \in {"solve_lp", "solve_qp"}}

\* JavaScript falsy values, as JSON text
Falsy(v) == v \in {Undefined, "null", "false", "0", "\"\""}

\* a test by truthiness: every falsy value given for the argument (0, null,
\* '') switches the report off, not only false
GenerateReportTruthy(args) ==
    IF "generate_report" \in DOMAIN args /\ Falsy(args.generate_report)
    THEN "false" ELSE "true"

\* args.generate_report !== false
GenerateReport(args) == IF Prop(args, "generate_report") # "false" THEN "true" ELSE "false"

\* (args.constraints as any[]) || []
ConstraintsOrEmpty(args) ==
    IF Falsy(Prop(args, "constraints")) THEN "[]" ELSE Prop(args, "constraints")

\* the problem object built in case 'solve_lp' / 'solve_mip'
LpToolProblem(args) ==
    [variables |-> Prop(args, "variables"),
     objective |-> Prop(args, "objective"),
     constraints |-> ConstraintsOrEmpty(args),
     generate_report |-> GenerateReport(args)]

\* the problem object built in case 'solve_tsp'
TspToolProblem(args) ==
    [locations |-> Prop(args, "locations"),
     start_location |-> Prop(args, "start_location"),
     generate_report |-> GenerateReport(args)]

\* a switch whose solve_mip case calls client.solveLp
DispatchMipAsLp(name) ==
    CASE name \in {"solve_lp", "solve_mip"} -> "solveLp"
      [] name = "solve_tsp" -> "solveTsp"
      [] name = "analyze_problem" -> "analyzeProblem"
      [] name = "get_report" -> "getReport"
      [] OTHER -> "none"

\* the facade method a tool name dispatches to, "none" for the default branch
Dispatch(name) ==
    CASE name = "solve_lp" -> "solveLp"
      [] name = "solve_mip" -> "solveMip"
      [] name = "solve_tsp" -> "solveTsp"
      [] name = "analyze_problem" -> "analyzeProblem"
      [] name = "get_report" -> "getReport"
      [] OTHER -> "none"

\* the argument the handler passes to the facade method
DispatchArg(name, args) ==
    CASE name \in {"solve_lp", "solve_mip"} -> LpToolProblem(args)
      [] name = "solve_tsp" -> TspToolProblem(args)
      [] name = "analyze_problem" -> Prop(args, "description")
      [] name = "get_report" -> Prop(args, "report_id")

RECURSIVE Digits(_, _)
\* the k low decimal digits of n, zero padded
Digits(n, k) == IF k = 0 THEN "" ELSE Digits(n \div 10, k - 1) \o ToString(n % 10)

Pow10(k) == 10 ^ k

\* a conversion that cuts the digits after the k-th instead of rounding
ToFixedTruncating(n, d, k) ==
    LET q == (n * Pow10(k)) \div d
    IN  ToString(q \div Pow10(k)) \o (IF k = 0 THEN "" ELSE "." \o Digits(q % Pow10(k), k))

\* (n / d).toFixed(k) for n >= 0
ToFixed(n, d, k) ==
    LET q == (2 * n * Pow10(k) + d) \div (2 * d)
    IN  ToString(q \div Pow10(k)) \o (IF k = 0 THEN "" ELSE "." \o Digits(q % Pow10(k), k))

\* `${x}` of a numeric property that may be absent
NumText(obj, p) == IF p \in DOMAIN obj THEN ToString(obj[p]) ELSE Undefined

\* `${x}` of a string property that may be absent
StrText(obj, p) == IF p \in DOMAIN obj THEN obj[p] ELSE Undefined

\* (obj[p] / d).toFixed(k); undefined / d is NaN
FixedText(obj, p, d, k) == IF p \in DOMAIN obj THEN ToFixed(obj[p], d, k) ELSE "NaN"

\* a test for the presence of the key instead of the truth of its value
HasReportKey(result) == "report_id" \in DOMAIN result

\* if (result.report_id)
HasReport(result) == "report_id" \in DOMAIN result /\ result.report_id # ""

RECURSIVE Join(_, _)
\* array.join(sep)
Join(seq, sep) ==
    IF seq = <<>> THEN ""
    ELSE IF Len(seq) = 1 THEN seq[1]
    ELSE seq[1] \o sep \o Join(Tail(seq), sep)

\* the lines of formatSolveResponse, before lines.join('\n')
formatSolveResponse(result, problemType) ==
    <<"## " \o problemType \o " Solution",
      "",
      "**Status:** " \o StrText(result, "status"),
      "**Objective Value:** " \o NumText(result, "objective_value"),
      "",
      "### Solution Values:">>
    \o (IF "solution" \in DOMAIN result
        THEN [i \in 1..Len(result.solution) |->
                "- " \o result.solution[i].name \o " = " \o ToString(result.solution[i].value)]
        ELSE <<>>)
    \o <<"",
         "**Solve Time:** "
            \o (IF "execution_time_ms" \in DOMAIN result
                THEN ToFixed(result.execution_time_ms, 1, 2) ELSE Undefined) \o "ms",
         "**Solver:** "
            \o (IF "solver_info" \in DOMAIN result /\ "solver" \in DOMAIN result.solver_info
                   /\ result.solver_info.solver # ""
                THEN result.solver_info.solver ELSE "OR-Tools")>>
    \o (IF HasReport(result)
        THEN <<"",
               "**Report ID:** " \o result.report_id,
               "View the full report at: " \o SERVER_URL \o "/api/reports/" \o result.report_id>>
        ELSE <<>>)

\* the lines of formatTspResponse (the arrow of the source is written "->")
formatTspResponse(result) ==
    LET sol == IF "solution" \in DOMAIN result THEN result.solution ELSE <<>>
    IN  <<"## Traveling Salesman Solution",
          "",
          "**Status:** " \o StrText(result, "status"),
          "**Total Distance:** " \o FixedText(result, "objective_value", 1000, 2) \o " km",
          "",
          "### Optimal Route:">>
        \o (IF "route_names" \in DOMAIN sol THEN <<Join(sol.route_names, " -> ")>> ELSE <<>>)
        \o (IF "segments" \in DOMAIN sol
            THEN <<"", "### Route Segments:">>
                 \o [i \in 1..Len(sol.segments) |->
                        "- " \o sol.segments[i].from_name \o " -> " \o sol.segments[i].to_name
                        \o ": " \o ToFixed(sol.segments[i].distance, 1000, 2) \o " km"]
            ELSE <<>>)
        \o <<"", "**Solve Time:** " \o FixedText(result, "execution_time_ms", 1000, 1) \o "s">>
        \o (IF HasReport(result)
            THEN <<"",
                   "**Report ID:** " \o result.report_id,
                   "View the route map at: " \o SERVER_URL \o "/api/reports/" \o result.report_id>>
            ELSE <<>>)

\* one itemized list of formatAnalysisResponse
Itemized(result, p, title, blank) ==
    IF p \in DOMAIN result /\ Len(result[p]) > 0
    THEN <<title>> \o [i \in 1..Len(result[p]) |-> "- " \o result[p][i]] \o blank
    ELSE <<>>

\* the lines of formatAnalysisResponse
formatAnalysisResponse(result) ==
    <<"## Problem Analysis",
      "",
      "**Problem Type:** " \o StrText(result, "problem_type"),
      "**Confidence:** " \o StrText(result, "confidence"),
      "">>
    \o Itemized(result, "variables_detected", "### Detected Variables:", <<"">>)
    \o Itemized(result, "constraints_detected", "### Detected Constraints:", <<"">>)
    \o Itemized(result, "recommendations", "### Recommendations:", <<>>)

\* a text that carries the fetched HTML after the summary lines
formatReportWithHtml(html, reportId) ==
    <<"HTML Report (" \o ToString(Len(html)) \o " characters):",
      "",
      "The report has been retrieved. To view it, save the content to an HTML file and open in a browser.",
      "",
      "Report ID: " \o reportId,
      "",
      html>>

\* the text of a successful get_report
formatReport(html, reportId) ==
    <<"HTML Report (" \o ToString(Len(html)) \o " characters):",
      "",
      "The report has been retrieved. To view it, save the content to an HTML file and open in a browser.",
      "",
      "Report ID: " \o reportId>>

\* the text of a successful tool call
SuccessText(name, args, data) ==
    CASE name = "solve_lp" -> formatSolveResponse(data, "Linear Programming")
      [] name = "solve_mip" -> formatSolveResponse(data, "Mixed-Integer Programming")
      [] name = "solve_tsp" -> formatTspResponse(data)
      [] name = "analyze_problem" -> formatAnalysisResponse(data)
      [] name = "get_report" -> formatReport(data, Prop(args, "report_id"))

\* reading a property of a null result throws a TypeError; the body of
\* get_report is only asked for its length
FormatThrows(name, data) == name # "get_report" /\ data = NullBody

\* the message of that TypeError: the first property the formatter reads
FormatErrorMessage(name) ==
    "Cannot read properties of null (reading '"
    \o (IF name = "analyze_problem" THEN "problem_type" ELSE "status") \o "')"

\* { content: [{ type: 'text', text }] }
SuccessBlock(text) == [content |-> <<[type |-> "text", text |-> text]>>]

\* { content: [{ type: 'text', text: `Error: ${message}` }], isError: true }
ErrorBlock(message) ==
    [content |-> <<[type |-> "text", text |-> <<"Error: " \o message>>]>>, isError |-> TRUE]

\* a handler without the catch around the formatter: the throw escapes
ToolReturnUncaught(name, args, data) ==
    IF FormatThrows(name, data) THEN <<>>
    ELSE <<SuccessBlock(SuccessText(name, args, data))>>

\* what the handler returns once the facade method has returned data: the
\* formatted success block, or the error block of the catch when formatting throws
ToolReturn(name, args, data) ==
    IF FormatThrows(name, data) THEN <<ErrorBlock(FormatErrorMessage(name))>>
    ELSE <<SuccessBlock(SuccessText(name, args, data))>>

\* the count of failed tool calls after one more
CountFailed(n) == IF n < MaxFailed THEN n + 1 ELSE n

-----------------------------------------------------------------------------
(* State machine *)

\* no request built, no tool call received
NoRequest == [method |-> "none", path |-> "none"]
NoTool == [name |-> "none", hasArgs |-> FALSE, args |-> <<>>]

\* the state of the slots cs before any call
InitCalls(cs) ==
    /\ pc = [c \in cs |-> "idle"]
    /\ via = [c \in cs |-> "none"]
    /\ op = [c \in cs |-> "none"]
    /\ arg = [c \in cs |-> <<>>]
    /\ retries = [c \in cs |-> 0]
    /\ req = [c \in cs |-> NoRequest]
    /\ retryCount = [c \in cs |-> 0]
    /\ wire = [c \in cs |-> <<>>]
    /\ delays = [c \in cs |-> <<>>]
    /\ observed = [c \in cs |-> <<>>]
    /\ thrown = [c \in cs |-> <<>>]
    /\ settled = [c \in cs |-> "pending"]
    /\ value = [c \in cs |-> <<>>]
    /\ error = [c \in cs |-> <<>>]
    /\ replied = [c \in cs |-> <<>>]
    /\ tool = [c \in cs |-> NoTool]
    /\ invoked = [c \in cs |-> <<>>]
    /\ toolResult = [c \in cs |-> <<>>]
    /\ failedCalls = 0

\* one caller at a time, with a client of its own configuration
Init ==
    /\ config \in {ClientConfig(cfg) : cfg \in ConfigInputs}
    /\ InitCalls(Calls)

\* HttpTransport.post / get: the first request goes out
Send(c, v, o, a, max) ==
    /\ via' = [via EXCEPT ![c] = v]
    /\ op' = [op EXCEPT ![c] = o]
    /\ arg' = [arg EXCEPT ![c] = <<a>>]
    /\ retries' = [retries EXCEPT ![c] = max]
    /\ req' = [req EXCEPT ![c] = FacadeRequest(o, a)]
    /\ wire' = [wire EXCEPT ![c] = <<OnWire(FacadeRequest(o, a))>>]
    /\ invoked' = [invoked EXCEPT ![c] = Append(@, o)]
    /\ pc' = [pc EXCEPT ![c] = "inflight"]
    /\ UNCHANGED <<config, retryCount, delays, observed, thrown, settled, value, error,
                   replied, failedCalls>>

\* a programmatic caller invokes a facade method of its own client
CallFacade(c) ==
    /\ pc[c] = "idle"
    /\ \E o \in Ops : \E a \in ArgsOf(o) : Send(c, "direct", o, a, config.retries)
    /\ UNCHANGED <<tool, toolResult>>

\* the discovery handler: it returns { tools } whatever the state
CallListTools(c) ==
    /\ pc[c] = "idle"
    /\ via' = [via EXCEPT ![c] = "discovery"]
    /\ toolResult' = [toolResult EXCEPT ![c] = <<[tools |-> tools]>>]
    /\ pc' = [pc EXCEPT ![c] = "done"]
    /\ UNCHANGED <<config, op, arg, retries, req, retryCount, wire, delays, observed,
                   thrown, settled, value, error, replied, invoked, tool, failedCalls>>

\* a tool call without `arguments`: the handler returns before the try block
CallToolNoArgs(c) ==
    /\ pc[c] = "idle"
    /\ \E r \in ToolRequests :
        /\ ~r.hasArgs
        /\ tool' = [tool EXCEPT ![c] = r]
    /\ via' = [via EXCEPT ![c] = "adapter"]
    /\ toolResult' = [toolResult EXCEPT ![c] = <<ErrorBlock("No arguments provided")>>]
    /\ failedCalls' = CountFailed(failedCalls)
    /\ pc' = [pc EXCEPT ![c] = "done"]
    /\ UNCHANGED <<config, op, arg, retries, req, retryCount, wire, delays, observed,
                   thrown, settled, value, error, replied, invoked>>

\* a default branch whose throw escapes the handler: no result is returned
CallToolUnknownRejects(c) ==
    /\ pc[c] = "idle"
    /\ \E r \in ToolRequests :
        /\ r.hasArgs
        /\ Dispatch(r.name) = "none"
        /\ tool' = [tool EXCEPT ![c] = r]
    /\ via' = [via EXCEPT ![c] = "adapter"]
    /\ pc' = [pc EXCEPT ![c] = "done"]
    /\ UNCHANGED <<config, op, arg, retries, req, retryCount, wire, delays, observed,
                   thrown, settled, value, error, replied, invoked, toolResult,
                   failedCalls>>

\* a tool call whose name hits the default branch: the throw is caught
CallToolUnknown(c) ==
    /\ pc[c] = "idle"
    /\ \E r \in ToolRequests :
        /\ r.hasArgs
        /\ Dispatch(r.name) = "none"
        /\ tool' = [tool EXCEPT ![c] = r]
        /\ toolResult' = [toolResult EXCEPT ![c] = <<ErrorBlock("Unknown tool: " \o r.name)>>]
    /\ failedCalls' = CountFailed(failedCalls)
    /\ via' = [via EXCEPT ![c] = "adapter"]
    /\ pc' = [pc EXCEPT ![c] = "done"]
    /\ UNCHANGED <<config, op, arg, retries, req, retryCount, wire, delays, observed,
                   thrown, settled, value, error, replied, invoked>>

\* a handler that checks the arguments against the schema's required list
\* before it dispatches
CallToolValidating(c) ==
    /\ pc[c] = "idle"
    /\ \E r \in ToolRequests :
        /\ r.hasArgs
        /\ Dispatch(r.name) # "none"
        /\ tool' = [tool EXCEPT ![c] = r]
        /\ IF RequiredArgs[r.name] \subseteq DOMAIN r.args
           THEN /\ Send(c, "adapter", Dispatch(r.name), DispatchArg(r.name, r.args),
                        AdapterConfig.retries)
                /\ UNCHANGED toolResult
           ELSE /\ via' = [via EXCEPT ![c] = "adapter"]
                /\ toolResult' = [toolResult EXCEPT ![c] =
                                    <<ErrorBlock("Missing required argument")>>]
                /\ failedCalls' = CountFailed(failedCalls)
                /\ pc' = [pc EXCEPT ![c] = "done"]
                /\ UNCHANGED <<config, op, arg, retries, req, retryCount, wire, delays,
                               observed, thrown, settled, value, error, replied, invoked>>

\* a tool call that dispatches to a facade method of the adapter's client
CallTool(c) ==
    /\ pc[c] = "idle"
    /\ \E r \in ToolRequests :
        /\ r.hasArgs
        /\ Dispatch(r.name) # "none"
        /\ tool' = [tool EXCEPT ![c] = r]
        /\ Send(c, "adapter", Dispatch(r.name), DispatchArg(r.name, r.args),
                AdapterConfig.retries)
    /\ UNCHANGED toolResult

\* a facade that wraps the transport's error in an error of its own
FacadeThrowWrapped(o, e) ==
    [status |-> NoResponse, code |-> "ERR_CLIENT", method |-> e.method,
     message |-> o \o " failed: " \o e.message]

\* what a facade method rejects with when the transport rejects with e:
\* no method has a try / catch around its `await this.transport...`
FacadeThrow(o, e) == e

\* a facade that copies only the fields it knows into a fresh solve response
listReportsReturnFirst(data) ==
    IF data.reports = <<>> THEN <<>> ELSE <<Head(data.reports)>>

\* listReports returns the reports field of the response body
listReportsReturn(data) == data.reports

FacadeReturnKnownFields(o, data) ==
    IF o = "listReports" THEN listReportsReturn(data)
    ELSE IF o \in {"solveLp", "solveMip", "solveTsp"}
    THEN [f \in DOMAIN data \cap {"status", "objective_value", "solution"} |-> data[f]]
    ELSE data

\* what the facade method returns from the response body
FacadeReturn(o, data) == IF o = "listReports" THEN listReportsReturn(data) ELSE data

\* a 2xx response: transport returns response.data, the facade returns it
RespondOk(c) ==
    /\ pc[c] = "inflight"
    /\ \E data \in PayloadsOf(op[c]) :
        /\ replied' = [replied EXCEPT ![c] = Append(@, data)]
        /\ value' = [value EXCEPT ![c] = <<FacadeReturn(op[c], data)>>]
        /\ toolResult' = [toolResult EXCEPT ![c] =
                        IF via[c] = "adapter"
                        THEN ToolReturn(tool[c].name, tool[c].args,
                                        FacadeReturn(op[c], data))
                        ELSE @]
        /\ failedCalls' = IF via[c] = "adapter"
                              /\ FormatThrows(tool[c].name, FacadeReturn(op[c], data))
                          THEN CountFailed(failedCalls) ELSE failedCalls
    /\ settled' = [settled EXCEPT ![c] = "resolved"]
    /\ pc' = [pc EXCEPT ![c] = "done"]
    /\ UNCHANGED <<config, via, op, arg, retries, req, retryCount, wire, delays,
                   observed, thrown, error, invoked, tool>>

\* a retry counter kept on the shared axios instance instead of on the
\* request's own config: a retry of one call counts for every call
RespondRetryShared(c) ==
    /\ pc[c] = "inflight"
    /\ \E e \in FailuresOf(req[c].method) :
        /\ shouldRetry(retryCount[c], retries[c], e)
        /\ observed' = [observed EXCEPT ![c] = Append(@, e)]
    /\ retryCount' = [d \in DOMAIN retryCount |-> retryCount[d] + 1]
    /\ \E pct \in JitterPcts :
        delays' = [delays EXCEPT ![c] = Append(@, exponentialDelay(retryCount[c] + 1, pct))]
    /\ pc' = [pc EXCEPT ![c] = "backoff"]
    /\ UNCHANGED <<config, via, op, arg, retries, req, wire, thrown, settled, value,
                   error, replied, invoked, tool, toolResult,
                   failedCalls>>

\* a failed attempt that axios-retry retries: it schedules the next attempt
RespondRetry(c) ==
    /\ pc[c] = "inflight"
    /\ \E e \in FailuresOf(req[c].method) :
        /\ shouldRetry(retryCount[c], retries[c], e)
        /\ observed' = [observed EXCEPT ![c] = Append(@, e)]
    /\ retryCount' = [retryCount EXCEPT ![c] = @ + 1]
    /\ \E pct \in JitterPcts :
        delays' = [delays EXCEPT ![c] = Append(@, exponentialDelay(retryCount[c] + 1, pct))]
    /\ pc' = [pc EXCEPT ![c] = "backoff"]
    /\ UNCHANGED <<config, via, op, arg, retries, req, wire, thrown, settled, value,
                   error, replied, invoked, tool, toolResult,
                   failedCalls>>

\* the backoff timer fires: the same request is sent again
Resend(c) ==
    /\ pc[c] = "backoff"
    /\ wire' = [wire EXCEPT ![c] = Append(@, OnWire(req[c]))]
    /\ pc' = [pc EXCEPT ![c] = "inflight"]
    /\ UNCHANGED <<config, via, op, arg, retries, req, retryCount, delays, observed,
                   thrown, settled, value, error, replied, invoked, tool, toolResult,
                   failedCalls>>

\* a rejection that reports the first failure of the call instead of the last
RespondRejectFirst(c) ==
    /\ pc[c] = "inflight"
    /\ \E e \in FailuresOf(req[c].method) :
        /\ ~shouldRetry(retryCount[c], retries[c], e)
        /\ observed' = [observed EXCEPT ![c] = Append(@, e)]
        /\ thrown' = [thrown EXCEPT ![c] = Append(@, Head(observed'[c]))]
        /\ error' = [error EXCEPT ![c] = <<FacadeThrow(op[c], Head(observed'[c]))>>]
        /\ toolResult' = [toolResult EXCEPT ![c] =
                        IF via[c] = "adapter"
                        THEN <<ErrorBlock(FacadeThrow(op[c], Head(observed'[c])).message)>>
                        ELSE @]
    /\ settled' = [settled EXCEPT ![c] = "rejected"]
    /\ failedCalls' = IF via[c] = "adapter" THEN CountFailed(failedCalls) ELSE failedCalls
    /\ pc' = [pc EXCEPT ![c] = "done"]
    /\ UNCHANGED <<config, via, op, arg, retries, req, retryCount, wire, delays,
                   value, replied, invoked, tool>>

\* a failed attempt that is not retried: the error reaches the facade's caller
RespondReject(c) ==
    /\ pc[c] = "inflight"
    /\ \E e \in FailuresOf(req[c].method) :
        /\ ~shouldRetry(retryCount[c], retries[c], e)
        /\ observed' = [observed EXCEPT ![c] = Append(@, e)]
        /\ thrown' = [thrown EXCEPT ![c] = Append(@, e)]
        /\ error' = [error EXCEPT ![c] = <<FacadeThrow(op[c], e)>>]
        /\ toolResult' = [toolResult EXCEPT ![c] =
                        IF via[c] = "adapter"
                        THEN <<ErrorBlock(FacadeThrow(op[c], e).message)>> ELSE @]
    /\ settled' = [settled EXCEPT ![c] = "rejected"]
    /\ failedCalls' = IF via[c] = "adapter" THEN CountFailed(failedCalls) ELSE failedCalls
    /\ pc' = [pc EXCEPT ![c] = "done"]
    /\ UNCHANGED <<config, via, op, arg, retries, req, retryCount, wire, delays,
                   value, replied, invoked, tool>>

\* the caller has taken the outcome; the next call starts from scratch
Return(c) ==
    /\ pc[c] = "done"
    /\ pc' = [pc EXCEPT ![c] = "idle"]
    /\ via' = [via EXCEPT ![c] = "none"]
    /\ op' = [op EXCEPT ![c] = "none"]
    /\ arg' = [arg EXCEPT ![c] = <<>>]
    /\ retries' = [retries EXCEPT ![c] = 0]
    /\ req' = [req EXCEPT ![c] = NoRequest]
    /\ retryCount' = [retryCount EXCEPT ![c] = 0]
    /\ wire' = [wire EXCEPT ![c] = <<>>]
    /\ delays' = [delays EXCEPT ![c] = <<>>]
    /\ observed' = [observed EXCEPT ![c] = <<>>]
    /\ thrown' = [thrown EXCEPT ![c] = <<>>]
    /\ settled' = [settled EXCEPT ![c] = "pending"]
    /\ value' = [value EXCEPT ![c] = <<>>]
    /\ error' = [error EXCEPT ![c] = <<>>]
    /\ replied' = [replied EXCEPT ![c] = <<>>]
    /\ invoked' = [invoked EXCEPT ![c] = <<>>]
    /\ tool' = [tool EXCEPT ![c] = NoTool]
    /\ toolResult' = [toolResult EXCEPT ![c] = <<>>]
    /\ UNCHANGED <<config, failedCalls>>

Next ==
    \E c \in Calls :
        \/ CallFacade(c)
        \/ CallListTools(c)
        \/ CallToolNoArgs(c)
        \/ CallToolUnknown(c)
        \/ CallTool(c)
        \/ RespondOk(c)
        \/ RespondRetry(c)
        \/ Resend(c)
        \/ RespondReject(c)
        \/ Return(c)

Spec == Init /\ [][Next]_vars

\* every request ends in a response or, at the latest, in the timeout error of the
\* configured per-request timeout; every backoff timer fires
Fairness ==
    \A c \in Calls :
        /\ WF_vars(RespondOk(c) \/ RespondRetry(c) \/ RespondReject(c))
        /\ WF_vars(Resend(c))

FairSpec == Spec /\ Fairness

-----------------------------------------------------------------------------
(* Concurrent tool calls: the host may send a tool call while earlier ones  *)
(* await their responses; every handler invocation uses the one client of  *)
(* the adapter. The calls and the failures followed are a part of those of *)
(* Spec, so that two calls can be followed through all their interleavings. *)

\* the tool calls in progress at the same time
ConcCalls == {1, 2}

\* the tool calls the host sends
ConcRequests ==
    { [name |-> "solve_lp", hasArgs |-> TRUE,
       args |-> [variables |-> Variables, objective |-> Objective]],
      [name |-> "get_report", hasArgs |-> TRUE, args |-> [report_id |-> "r1"]],
      [name |-> "solve_qp", hasArgs |-> TRUE, args |-> [report_id |-> "r1"]],
      [name |-> "solve_lp", hasArgs |-> FALSE, args |-> <<>>] }

\* the failures the remote service answers with
ConcFailures(m) == {StatusError(503, m), StatusError(400, m)}

\* the last failure call c has seen is one of ConcFailures
ConcFailed(c) == observed[c][Len(observed[c])] \in ConcFailures(req[c].method)

ConcInit ==
    /\ config = AdapterConfig
    /\ InitCalls(ConcCalls)

ConcCallToolNoArgs(c) == CallToolNoArgs(c) /\ tool'[c] \in ConcRequests
ConcCallToolUnknown(c) == CallToolUnknown(c) /\ tool'[c] \in ConcRequests
ConcCallTool(c) == CallTool(c) /\ tool'[c] \in ConcRequests
ConcRespondRetry(c) == RespondRetry(c) /\ ConcFailed(c)'
ConcRespondReject(c) == RespondReject(c) /\ ConcFailed(c)'

ConcNext ==
    \E c \in ConcCalls :
        \/ CallListTools(c)
        \/ ConcCallToolNoArgs(c)
        \/ ConcCallToolUnknown(c)
        \/ ConcCallTool(c)
        \/ RespondOk(c)
        \/ ConcRespondRetry(c)
        \/ Resend(c)
        \/ ConcRespondReject(c)
        \/ Return(c)

ConcSpec == ConcInit /\ [][ConcNext]_vars

-----------------------------------------------------------------------------
(* Properties *)

\* attempt i of call c was followed by the scheduling of a retry
Retried(c, i) == Len(delays[c]) >= i

\* attempt i of call c was the last one: the call failed and nothing was re-sent
FailedAt(c, i) ==
    /\ Len(observed[c]) = i
    /\ Len(wire[c]) = i
    /\ Len(thrown[c]) = 1
    /\ settled[c] = "rejected"
    /\ pc[c] = "done"

\* every failure call c has seen so far is a response with status s
AllStatus(c, s) ==
    /\ observed[c] # <<>>
    /\ \A i \in 1..Len(observed[c]) : observed[c][i].status = s

C2_NoRetryOn400 ==
    \A c \in Calls :
        \A i \in 1..Len(observed[c]) :
            observed[c][i].status = 400 =>
                /\ FailedAt(c, i)
                /\ i = 1 => Len(wire[c]) = 1
                /\ thrown[c][1].status = 400

\* a first response of 400 under a client that still had retries left
C2_Witness ==
    \E c \in Calls :
        /\ Len(observed[c]) = 1
        /\ observed[c][1].status = 400
        /\ retries[c] >= 2
        /\ Len(wire[c]) = 1
        /\ settled[c] = "rejected"

\* an error status other than the two the retry condition names
OtherErrorStatus(e) == e.status >= 400 /\ e.status <= 599 /\ e.status \notin {429, 503}

\* attempt i of call c is retried while the budget lasts and is final afterwards
RetriedWithinBudget(c, i) ==
    /\ i <= retries[c] => Retried(c, i)
    /\ i > retries[c] => FailedAt(c, i)

\* C3 as stated: for get and post, every 4xx / 5xx status other than 429 and
\* 503 fails at once, without a retry.
C3_Original ==
    \A c \in Calls :
        \A i \in 1..Len(observed[c]) :
            OtherErrorStatus(observed[c][i]) => FailedAt(c, i)

\* C3 amended: a post fails at once on every 4xx / 5xx status other than 429
\* and 503, and a get fails at once on every 4xx status other than 429; a get
\* answered with a 5xx status (500, 502) is retried like one answered 503.
C3_NoRetryOtherStatus ==
    \A c \in Calls :
        \A i \in 1..Len(observed[c]) :
            OtherErrorStatus(observed[c][i]) =>
                IF observed[c][i].method = "post" \/ observed[c][i].status < 500
                THEN FailedAt(c, i)
                ELSE RetriedWithinBudget(c, i)

\* a post answered 500 under a client that still had retries left
C3_Witness ==
    \E c \in Calls :
        /\ Len(observed[c]) = 1
        /\ observed[c][1].status = 500
        /\ observed[c][1].method = "post"
        /\ retries[c] >= 2
        /\ FailedAt(c, 1)

\* a failure without response that is not a timeout
NetworkFailure(e) == e.status = NoResponse /\ e.code \in NetworkCodes

C5_TimeoutRetried ==
    \A c \in Calls :
        \A i \in 1..Len(observed[c]) :
            observed[c][i].code = TimeoutCode => RetriedWithinBudget(c, i)

\* C6: when the transport gives up, it rejects once, with the failure of the
\* last attempt, and every request it sent has been answered: nothing is
\* sent after the rejection.
C6_LastErrorSurfaces ==
    \A c \in Calls :
        thrown[c] # <<>> =>
            /\ FailedAt(c, Len(observed[c]))
            /\ thrown[c][1] = observed[c][Len(observed[c])]

\* the budget is used up by retryable failures and the last differs from the first
C6_Witness ==
    \E c \in Calls :
        /\ thrown[c] # <<>>
        /\ retries[c] >= 2
        /\ Len(observed[c]) = retries[c] + 1
        /\ retryCount[c] = retries[c]
        /\ observed[c][1].status = 429
        /\ observed[c][Len(observed[c])].status = 503
        /\ thrown[c][1].status = 503

\* no call has more requests on the wire than its retry count plus one
BoundedRequests ==
    \A c \in Calls :
        /\ Len(wire[c]) <= retries[c] + 1
        /\ via[c] = "direct" => retries[c] = config.retries
        /\ via[c] = "adapter" => Len(wire[c]) <= 3

\* C7: every get or post sends at most R+1 requests (at most 3 for a tool
\* call through the adapter) and then returns the body or fails: a call that
\* has a request in flight or a retry pending always reaches its end.
C7_Terminates ==
    /\ []BoundedRequests
    /\ \A c \in Calls : (pc[c] \in {"inflight", "backoff"}) ~> (pc[c] = "done")

\* a tool call that used its whole budget: three requests, then the end
C7_Witness ==
    \E c \in Calls :
        /\ via[c] = "adapter"
        /\ pc[c] = "done"
        /\ Len(wire[c]) = 3
        /\ Len(observed[c]) = 3

SolveOps == {"solveLp", "solveMip", "solveTsp"}

\* the fixed remote path of each solve operation
SolvePath(o) ==
    CASE o = "solveLp" -> "/api/solve/lp"
      [] o = "solveMip" -> "/api/solve/mip"
      [] o = "solveTsp" -> "/api/solve/tsp"

\* C8 as stated: a solve operation called directly sends generate_report filled
\* in, and for LP / MIP an empty constraints list when none was given; every
\* field the caller gave is sent as given, to the fixed path.
C8_Original ==
    \A c \in Calls :
        (via[c] = "direct" /\ op[c] \in SolveOps) =>
            \A i \in 1..Len(wire[c]) :
                /\ wire[c][i].path = SolvePath(op[c])
                /\ \A f \in DOMAIN arg[c][1] : Prop(wire[c][i].body, f) = arg[c][1][f]
                /\ "generate_report" \in DOMAIN wire[c][i].body
                /\ op[c] # "solveTsp" => "constraints" \in DOMAIN wire[c][i].body

\* C8 amended: a solve operation called directly fills in nothing: the body of
\* every request is the problem exactly as the caller gave it (an absent
\* generate_report or constraints stays absent), posted to the fixed path.
C8_SentVerbatim ==
    \A c \in Calls :
        (via[c] = "direct" /\ op[c] \in SolveOps) =>
            \A i \in 1..Len(wire[c]) :
                wire[c][i] = [method |-> "post", path |-> SolvePath(op[c]), body |-> arg[c][1]]

\* solveLp called directly with neither constraints nor generate_report
C8_Witness ==
    \E c \in Calls :
        /\ via[c] = "direct"
        /\ op[c] = "solveLp"
        /\ DOMAIN arg[c][1] = {"variables", "objective"}
        /\ Len(wire[c]) >= 1
        /\ DOMAIN wire[c][1].body = {"variables", "objective"}

\* C9: a solve operation that succeeds returns exactly the body the remote
\* service sent: no field added, removed or changed.
C9_PayloadUnchanged ==
    \A c \in Calls :
        (settled[c] = "resolved" /\ op[c] \in SolveOps) =>
            /\ Len(replied[c]) = 1
            /\ value[c] = replied[c]

\* solveLp has returned OPTIMAL, 20, {x: 0, y: 10} together with a report id
C9_Witness ==
    \E c \in Calls :
        /\ via[c] = "direct"
        /\ op[c] = "solveLp"
        /\ settled[c] = "resolved"
        /\ DOMAIN value[c][1] = {"status", "objective_value", "solution", "report_id",
                              "execution_time_ms", "solver_info"}
        /\ value[c][1].status = "OPTIMAL"
        /\ value[c][1].objective_value = 20
        /\ value[c][1].solution = <<[name |-> "x", value |-> 0], [name |-> "y", value |-> 10]>>
        /\ value[c][1].report_id = "r1"

\* C10: whatever the transport rejects with reaches the caller of any facade
\* operation as that same error; the facade returns no value in its place.
C10_FacadePropagates ==
    \A c \in Calls :
        /\ thrown[c] # <<>> =>
            /\ settled[c] = "rejected"
            /\ error[c] = thrown[c]
            /\ value[c] = <<>>
        /\ settled[c] = "rejected" => thrown[c] # <<>>
        /\ settled[c] = "resolved" => thrown[c] = <<>>

\* listReports called directly has failed with the transport's 400 error
C10_Witness ==
    \E c \in Calls :
        /\ via[c] = "direct"
        /\ op[c] = "listReports"
        /\ settled[c] = "rejected"
        /\ thrown[c] # <<>>
        /\ error[c][1].status = 400

\* C11 as stated: listReports(limit) returns at most limit entries, for every
\* limit and every remote response.
C11_Original ==
    \A c \in Calls :
        (via[c] = "direct" /\ op[c] = "listReports" /\ settled[c] = "resolved") =>
            Len(value[c][1]) <= arg[c][1]

\* C11: listReports(limit) asks the remote for limit entries and returns the
\* remote-supplied reports unchanged and in the remote-supplied order; it never
\* truncates, so the length is that of the remote list.
C11_ReturnsRemoteReports ==
    \A c \in Calls :
        (op[c] = "listReports" /\ settled[c] = "resolved") =>
            /\ Len(replied[c]) = 1
            /\ wire[c][1].path = "/api/reports?limit=" \o ToString(arg[c][1])
            /\ value[c][1] = replied[c][1].reports

\* listReports(1) has returned the two reports the remote supplied, in its order
C11_Witness ==
    \E c \in Calls :
        /\ op[c] = "listReports"
        /\ arg[c] = <<1>>
        /\ settled[c] = "resolved"
        /\ replied[c][1].reports = <<"r2", "r1">>
        /\ value[c] = << <<"r2", "r1">> >>

\* a result without an error flag
IsSuccessBlock(b) ==
    /\ DOMAIN b = {"content"}
    /\ Len(b.content) = 1
    /\ b.content[1].type = "text"

\* a result flagged isError whose text is one line
IsErrorBlock(b) ==
    /\ DOMAIN b = {"content", "isError"}
    /\ b.isError = TRUE
    /\ Len(b.content) = 1
    /\ b.content[1].type = "text"
    /\ Len(b.content[1].text) = 1

\* the facade method the specification assigns to each tool name
SelectedMethod ==
    [solve_lp |-> "solveLp", solve_mip |-> "solveMip", solve_tsp |-> "solveTsp",
     analyze_problem |-> "analyzeProblem", get_report |-> "getReport"]

\* C12: a tool call invokes at most one facade method, the one selected by
\* its name, and ends with exactly one result, a success block without error
\* flag or an error block with isError true; no result exists before the end.
C12_OneMethodOneResult ==
    \A c \in Calls :
        via[c] = "adapter" =>
            /\ Len(invoked[c]) <= 1
            /\ invoked[c] # <<>> =>
                    /\ tool[c].name \in DOMAIN SelectedMethod
                    /\ invoked[c][1] = SelectedMethod[tool[c].name]
            /\ pc[c] = "done" =>
                    /\ Len(toolResult[c]) = 1
                    /\ IsSuccessBlock(toolResult[c][1]) # IsErrorBlock(toolResult[c][1])
                    /\ IsSuccessBlock(toolResult[c][1]) => settled[c] = "resolved"
            /\ pc[c] # "done" => toolResult[c] = <<>>

\* solve_mip has ended with a success block after one call of solveMip
C12_Witness ==
    \E c \in Calls :
        /\ via[c] = "adapter"
        /\ pc[c] = "done"
        /\ tool[c].name = "solve_mip"
        /\ invoked[c] = <<"solveMip">>
        /\ IsSuccessBlock(toolResult[c][1])

\* C13: a tool call whose name is none of the five declared ones ends at once
\* with one error block (isError true); no facade method is called and no
\* HTTP request is sent.
C13_UnknownToolIsError ==
    \A c \in Calls :
        (via[c] = "adapter" /\ tool[c].name \notin DOMAIN SelectedMethod) =>
            /\ pc[c] = "done"
            /\ Len(toolResult[c]) = 1
            /\ IsErrorBlock(toolResult[c][1])
            /\ tool[c].hasArgs =>
                    toolResult[c][1].content[1].text = <<"Error: Unknown tool: " \o tool[c].name>>
            /\ invoked[c] = <<>>
            /\ wire[c] = <<>>
            /\ req[c] = NoRequest
            /\ settled[c] = "pending"

\* solve_qp called with arguments has been answered 'Error: Unknown tool: solve_qp'
C13_Witness ==
    \E c \in Calls :
        /\ via[c] = "adapter"
        /\ tool[c].name = "solve_qp"
        /\ tool[c].hasArgs
        /\ pc[c] = "done"
        /\ toolResult[c] = <<[content |-> <<[type |-> "text",
                                            text |-> <<"Error: Unknown tool: solve_qp">>]>>,
                              isError |-> TRUE]>>
        /\ wire[c] = <<>>

\* call c holds nothing of an earlier call: it is served as the first call was
Fresh(c) ==
    /\ via[c] = "none" /\ op[c] = "none" /\ arg[c] = <<>> /\ retries[c] = 0
    /\ req[c] = NoRequest /\ retryCount[c] = 0 /\ wire[c] = <<>> /\ delays[c] = <<>>
    /\ observed[c] = <<>> /\ thrown[c] = <<>> /\ settled[c] = "pending"
    /\ value[c] = <<>> /\ error[c] = <<>> /\ replied[c] = <<>> /\ invoked[c] = <<>>
    /\ tool[c] = NoTool /\ toolResult[c] = <<>>

\* the one result of the finished tool call c is the error block of message m
AnsweredError(c, m) ==
    toolResult[c] = <<[content |-> <<[type |-> "text", text |-> <<"Error: " \o m>>]>>,
                      isError |-> TRUE]>>

\* C14: an error thrown while a tool call is handled, by the facade and
\* transport or by the formatting of the result, is returned as the text
\* 'Error: <message>' with isError true, so the handler always returns one
\* result; however many calls have failed, the next call starts from the
\* state the first call started from.
C14_ErrorsAreCaught ==
    \A c \in Calls :
        /\ (via[c] = "adapter" /\ pc[c] = "done") =>
            /\ Len(toolResult[c]) = 1
            /\ settled[c] = "rejected" => AnsweredError(c, thrown[c][1].message)
            /\ (settled[c] = "resolved" /\ tool[c].name # "get_report"
                    /\ replied[c][1] = NullBody) =>
                    /\ IsErrorBlock(toolResult[c][1])
                    /\ AnsweredError(c, FormatErrorMessage(tool[c].name))
            /\ (settled[c] = "pending" /\ tool[c].hasArgs) =>
                    AnsweredError(c, "Unknown tool: " \o tool[c].name)
        /\ pc[c] = "idle" => Fresh(c)

\* after MaxFailed failed tool calls solve_lp has been answered with a success
\* block that carries the solution
C14_Witness ==
    \E c \in Calls :
        /\ failedCalls = MaxFailed
        /\ via[c] = "adapter"
        /\ tool[c].name = "solve_lp"
        /\ pc[c] = "done"
        /\ settled[c] = "resolved"
        /\ IsSuccessBlock(toolResult[c][1])
        /\ toolResult[c][1].content[1].text[3] = "**Status:** OPTIMAL"

\* tool call c names a declared tool and carries an arguments object that
\* lacks an argument the tool's schema requires
LacksRequired(c) ==
    /\ via[c] = "adapter"
    /\ tool[c].hasArgs
    /\ tool[c].name \in DOMAIN RequiredArgs
    /\ RequiredArgs[tool[c].name] \ DOMAIN tool[c].args # {}

\* C15 as stated: a tool call that lacks a required argument ends at once
\* with an error block and no request is sent.
C15_Original ==
    \A c \in Calls :
        LacksRequired(c) =>
            /\ pc[c] = "done"
            /\ IsErrorBlock(toolResult[c][1])
            /\ wire[c] = <<>>

\* C15: only a tool call without an arguments object ends at the adapter
\* boundary ('Error: No arguments provided', nothing sent). A call whose
\* arguments object lacks a required argument is dispatched like any other:
\* the facade method is invoked and the request is sent without that
\* argument (get_report asks for /api/reports/undefined), and the call ends by
\* the remote response.
C15_MissingArgumentIsSent ==
    \A c \in Calls :
        /\ (via[c] = "adapter" /\ ~tool[c].hasArgs) =>
            /\ pc[c] = "done"
            /\ AnsweredError(c, "No arguments provided")
            /\ wire[c] = <<>>
            /\ invoked[c] = <<>>
        /\ LacksRequired(c) =>
            /\ invoked[c] = <<SelectedMethod[tool[c].name]>>
            /\ Len(wire[c]) >= 1
            /\ tool[c].name = "get_report" => wire[c][1].path = "/api/reports/undefined"
            /\ tool[c].name # "get_report" =>
                    DOMAIN wire[c][1].body \cap RequiredArgs[tool[c].name]
                        = DOMAIN tool[c].args \cap RequiredArgs[tool[c].name]
            /\ pc[c] = "done" => settled[c] \in {"resolved", "rejected"}

\* get_report called with {id: 'r1'} has fetched /api/reports/undefined and has
\* been answered with a success block
C15_Witness ==
    \E c \in Calls :
        /\ LacksRequired(c)
        /\ tool[c].name = "get_report"
        /\ wire[c] = <<[method |-> "get", path |-> "/api/reports/undefined"]>>
        /\ pc[c] = "done"
        /\ IsSuccessBlock(toolResult[c][1])

\* line begins with prefix
StartsWith(line, prefix) ==
    Len(line) >= Len(prefix) /\ SubSeq(line, 1, Len(prefix)) = prefix

\* the positions of the report-hint lines in a formatted text
HintLines(text) ==
    {i \in DOMAIN text :
        StartsWith(text[i], "**Report ID:**") \/ StartsWith(text[i], "View the ")}

\* the tool call c has been answered with the formatted result of a solve
SolveFormatted(c) ==
    /\ via[c] = "adapter"
    /\ pc[c] = "done"
    /\ tool[c].name \in {"solve_lp", "solve_mip", "solve_tsp"}
    /\ IsSuccessBlock(toolResult[c][1])

\* C16: the text formatSolveResponse and formatTspResponse produce ends with
\* the Report ID line and the report URL line when the result has a
\* (non-empty) report_id, and has no report-hint line at all otherwise.
C16_ReportHintIffReportId ==
    \A c \in Calls :
        SolveFormatted(c) =>
            LET r == replied[c][1]
                text == toolResult[c][1].content[1].text
                n == Len(text)
                view == IF tool[c].name = "solve_tsp" THEN "View the route map at: "
                        ELSE "View the full report at: "
            IN  IF "report_id" \in DOMAIN r /\ r.report_id # ""
                THEN /\ HintLines(text) = {n - 1, n}
                     /\ text[n - 2] = ""
                     /\ text[n - 1] = "**Report ID:** " \o r.report_id
                     /\ text[n] = view \o "http://srv/api/reports/" \o r.report_id
                ELSE HintLines(text) = {}

\* solve_tsp has been answered for a result with report_id r1: the text ends
\* with the two report-hint lines
C16_Witness ==
    \E c \in Calls :
        /\ SolveFormatted(c)
        /\ tool[c].name = "solve_tsp"
        /\ "report_id" \in DOMAIN replied[c][1]
        /\ replied[c][1].report_id = "r1"
        /\ LET text == toolResult[c][1].content[1].text
           IN  /\ text[Len(text) - 1] = "**Report ID:** r1"
               /\ text[Len(text)] = "View the route map at: http://srv/api/reports/r1"

\* m metres written in kilometres with two decimals: the hundredth of a
\* kilometre nearest to m
KmText(m) ==
    LET h == CHOOSE h \in 0..(m \div 10 + 1) : 10 * h - m \in -4..5
    IN  ToString(h \div 100) \o "." \o ToString((h \div 10) % 10) \o ToString(h % 10)

\* the tool call c has been answered with the formatted result of a TSP
\* solve that carries an objective value
TspFormatted(c) ==
    /\ SolveFormatted(c)
    /\ tool[c].name = "solve_tsp"
    /\ "objective_value" \in DOMAIN replied[c][1]

\* C17: formatTspResponse writes the total distance as objective_value / 1000
\* with two decimals and ' km' (15000 gives '15.00 km'), and each segment's
\* distance by the same conversion.
C17_KilometresTwoDecimals ==
    \A c \in Calls :
        TspFormatted(c) =>
            LET r == replied[c][1]
                text == toolResult[c][1].content[1].text
            IN  /\ text[4] = "**Total Distance:** " \o KmText(r.objective_value) \o " km"
                /\ r.objective_value = 15000 => text[4] = "**Total Distance:** 15.00 km"
                /\ "segments" \in DOMAIN r.solution =>
                        \E j \in DOMAIN text :
                            /\ text[j] = "### Route Segments:"
                            /\ \A i \in DOMAIN r.solution.segments :
                                    text[j + i] =
                                        "- " \o r.solution.segments[i].from_name
                                        \o " -> " \o r.solution.segments[i].to_name
                                        \o ": " \o KmText(r.solution.segments[i].distance)
                                        \o " km"

\* a TSP result of 15000 m with segments of 5000 m and 2346 m has been
\* rendered as 15.00 km, 5.00 km and 2.35 km
C17_Witness ==
    \E c \in Calls :
        /\ TspFormatted(c)
        /\ replied[c][1].objective_value = 15000
        /\ LET text == toolResult[c][1].content[1].text
           IN  /\ text[4] = "**Total Distance:** 15.00 km"
               /\ text[10] = "- A -> B: 5.00 km"
               /\ text[11] = "- B -> C: 2.35 km"

\* the names in a list of declarations
Declared(list) == {list[i] : i \in DOMAIN list}

\* C18: discovery returns exactly the five declarations solve_lp, solve_mip,
\* solve_tsp, analyze_problem and get_report whatever has happened before, and
\* a tool call reaches a facade method exactly when its name is a declared one
\* (and it carries arguments).
C18_DiscoveryMatchesDispatch ==
    \A c \in Calls :
        /\ via[c] = "discovery" =>
            /\ pc[c] = "done"
            /\ toolResult[c] = <<[tools |-> <<"solve_lp", "solve_mip", "solve_tsp",
                                              "analyze_problem", "get_report">>]>>
            /\ invoked[c] = <<>>
            /\ wire[c] = <<>>
        /\ via[c] = "adapter" =>
            (invoked[c] # <<>>) = (tool[c].hasArgs /\ tool[c].name \in Declared(tools))
        /\ \A n \in Declared(tools) : Dispatch(n) # "none"
        /\ \A r \in ToolRequests : Dispatch(r.name) # "none" => r.name \in Declared(tools)

\* discovery has answered with five declarations after failed tool calls
C18_Witness ==
    \E c \in Calls :
        /\ via[c] = "discovery"
        /\ pc[c] = "done"
        /\ failedCalls > 0
        /\ Len(toolResult[c][1].tools) = 5

\* the fields of the request body a solve tool may send
Whitelist(name) ==
    IF name = "solve_tsp" THEN {"locations", "start_location", "generate_report"}
    ELSE {"variables", "objective", "constraints", "generate_report"}

\* C20: every request of solve_lp, solve_mip and solve_tsp carries
\* generate_report = true unless the argument is exactly false, carries
\* constraints = [] for LP / MIP when the argument is absent or falsy, and
\* carries no field outside the whitelist (timeout is never sent); the
\* whitelisted arguments are sent as given.
C20_AdapterDefaultsAndWhitelist ==
    \A c \in Calls :
        (via[c] = "adapter" /\ tool[c].name \in {"solve_lp", "solve_mip", "solve_tsp"}
            /\ tool[c].hasArgs) =>
            /\ wire[c] # <<>>
            /\ \A i \in DOMAIN wire[c] :
                LET b == wire[c][i].body
                    a == tool[c].args
                IN  /\ DOMAIN b \subseteq Whitelist(tool[c].name)
                    /\ "timeout" \notin DOMAIN b
                    /\ b.generate_report =
                            IF "generate_report" \in DOMAIN a /\ a.generate_report = "false"
                            THEN "false" ELSE "true"
                    /\ tool[c].name # "solve_tsp" =>
                            b.constraints =
                                IF "constraints" \in DOMAIN a
                                   /\ a.constraints \notin {"null", "false", "0", "\"\"",
                                                             "undefined"}
                                THEN a.constraints ELSE "[]"
                    /\ \A f \in (DOMAIN a \cap Whitelist(tool[c].name))
                                    \ {"constraints", "generate_report"} :
                            f \in DOMAIN b /\ b[f] = a[f]

\* solve_lp called with generate_report 0, constraints null and no variables
\* has sent generate_report true and constraints []
C20_Witness ==
    \E c \in Calls :
        /\ via[c] = "adapter"
        /\ tool[c].name = "solve_lp"
        /\ tool[c].hasArgs
        /\ DOMAIN tool[c].args = {"objective", "constraints", "generate_report"}
        /\ tool[c].args.generate_report = "0"
        /\ tool[c].args.constraints = "null"
        /\ Len(wire[c]) = 1
        /\ wire[c][1].body = [objective |-> Objective, constraints |-> "[]",
                              generate_report |-> "true"]

\* everything the state keeps for call c
OwnState(c) ==
    <<pc[c], via[c], op[c], arg[c], retries[c], req[c], retryCount[c], wire[c],
      delays[c], observed[c], thrown[c], settled[c], value[c], error[c], replied[c],
      invoked[c], tool[c], toolResult[c]>>

\* the result of the tool call c as its own arguments and the responses to
\* its own requests determine it
OwnResult(c) ==
    IF ~tool[c].hasArgs THEN <<ErrorBlock("No arguments provided")>>
    ELSE IF tool[c].name \notin DOMAIN SelectedMethod
    THEN <<ErrorBlock("Unknown tool: " \o tool[c].name)>>
    ELSE IF replied[c] # <<>>
    THEN ToolReturn(tool[c].name, tool[c].args, replied[c][1])
    ELSE <<ErrorBlock(observed[c][Len(observed[c])].message)>>

\* each tool call has the adapter's whole retry budget, counts its own retries
\* only, sends what its own arguments determine and ends with its own result
OwnBudgetAndResult ==
    \A c \in ConcCalls :
        (via[c] = "adapter" /\ invoked[c] # <<>>) =>
            /\ retries[c] = AdapterRetries
            /\ retryCount[c] = Len(delays[c])
            /\ Len(wire[c]) = Len(delays[c]) + (IF pc[c] = "backoff" THEN 0 ELSE 1)
            /\ \A i \in DOMAIN wire[c] :
                    wire[c][i] = OnWire(FacadeRequest(SelectedMethod[tool[c].name],
                                                      DispatchArg(tool[c].name, tool[c].args)))
            /\ (pc[c] = "done" /\ settled[c] = "rejected"
                    /\ observed[c][Len(observed[c])].status = 503) =>
                    Len(wire[c]) = AdapterRetries + 1
            /\ pc[c] = "done" => toolResult[c] = OwnResult(c)

\* a step of one call leaves everything kept for the other calls as it was
OwnStep ==
    \A c \in ConcCalls :
        OwnState(c)' # OwnState(c) =>
            \A d \in ConcCalls \ {c} : OwnState(d)' = OwnState(d)

\* C19: concurrent tool calls are independent under every interleaving of
\* their request, retry and response steps: each call's result is determined
\* by its own arguments and the responses to its own requests, each step
\* touches one call only, and a call's retries never use up another's budget.
C19_CallsIndependent == []OwnBudgetAndResult /\ [][OwnStep]_vars

\* call 1 has failed after its three requests were answered 503 while call 2,
\* sent meanwhile, has succeeded on its second request
C19_Witness ==
    /\ DOMAIN pc = ConcCalls
    /\ pc[1] = "done" /\ via[1] = "adapter" /\ settled[1] = "rejected"
    /\ Len(wire[1]) = 3 /\ retryCount[1] = 2
    /\ \A i \in 1..3 : observed[1][i].status = 503
    /\ pc[2] = "done" /\ via[2] = "adapter" /\ settled[2] = "resolved"
    /\ Len(wire[2]) = 2 /\ retryCount[2] = 1
    /\ IsErrorBlock(toolResult[1][1])
    /\ IsSuccessBlock(toolResult[2][1])

\* part occurs somewhere in line
Contains(line, part) ==
    \E i \in 1..(Len(line) - Len(part) + 1) : SubSeq(line, i, i + Len(part) - 1) = part

\* the tool call c is a get_report that has been answered with a success block
ReportFetched(c) ==
    /\ via[c] = "adapter"
    /\ tool[c].name = "get_report"
    /\ pc[c] = "done"
    /\ IsSuccessBlock(toolResult[c][1])

\* C21: the text of a successful get_report is the fixed notice with the
\* character count of the fetched HTML and the report id that was asked for;
\* no line of it contains the fetched HTML.
C21_ReportTextOmitsHtml ==
    \A c \in Calls :
        ReportFetched(c) =>
            LET html == replied[c][1]
                text == toolResult[c][1].content[1].text
                id == IF "report_id" \in DOMAIN tool[c].args
                      THEN tool[c].args.report_id ELSE "undefined"
            IN  /\ value[c] = <<html>>
                /\ Len(text) = 5
                /\ text[1] = "HTML Report (" \o ToString(Len(html)) \o " characters):"
                /\ text[2] = ""
                /\ text[3] = "The report has been retrieved. To view it, save the content to an HTML file and open in a browser."
                /\ text[4] = ""
                /\ text[5] = "Report ID: " \o id
                /\ \A i \in DOMAIN text : ~Contains(text[i], html)

\* get_report r1 has fetched a page of 35 characters and has been answered
\* with the count and the id
C21_Witness ==
    \E c \in Calls :
        /\ ReportFetched(c)
        /\ replied[c] = <<"<html><body>report r1</body></html>">>
        /\ toolResult[c][1].content[1].text[1] = "HTML Report (35 characters):"
        /\ toolResult[c][1].content[1].text[5] = "Report ID: r1"

====
